---------------------------- MODULE Spec2Model ----------------------------
(***************************************************************************)
(* A model of the EPI recorder's zero-config `run` command                  *)
(* (src/epi_cli/run.py), the CLI entry point (src/epi_cli/main.py) and the  *)
(* evidence container they drive.  The container, the trust layer and the   *)
(* keystore (epi_core.container, epi_core.trust, epi_cli.keys) are modelled *)
(* from their specification; everything else is translated from the code.   *)
(***************************************************************************)
EXTENDS Naturals, Sequences, FiniteSets, TLC

(***************************************************************************)
(* Bounds of the model.                                                     *)
(***************************************************************************)
\* the recordings started concurrently (SpecConc); Spec drives run 1 only
NumRuns == 2
\* clock ticks the wall clock may advance, and ticks per second
MaxTime == 2
TicksPerSecond == 2
\* return codes of the recorded child are 0..MaxRc
MaxRc == 2
\* payload values of an entry are 0..MaxByte
MaxByte == 1
\* keypairs the keystore can generate: ids 1..MaxKeys
MaxKeys == 4
\* steps the environment (tampering, key management) may take
MaxEnv == 2
\* steps the recorded code puts on the queue of an AsyncRecorder
MaxSteps == 1
\* times the flush worker's queue.get() is let time out
MaxTimeouts == 1

Runs == 1 .. NumRuns
Clock == 0 .. MaxTime
KeyIds == 1 .. MaxKeys

(***************************************************************************)
(* Optional values: <<>> is None, <<v>> is v.                               *)
(***************************************************************************)
None == << >>
Some(v) == << v >>

(***************************************************************************)
(* Entry names.  run.py names env.json, stdout.log and stderr.log in the   *)
(* workspace it packs, manifest.json and viewer.html in the archive; the    *)
(* step log is written by the recorded child.                               *)
(***************************************************************************)
MANIFEST == "manifest.json"
VIEWER == "viewer.html"
WorkspaceFiles == << "env.json", "stderr.log", "stdout.log", "steps.jsonl" >>

Bytes(n) == << "bytes", n >>
Payloads == { Bytes(n) : n \in 0 .. MaxByte }
\* the viewer asset bundled with the tool
ViewerAsset == Bytes(0)

RECURSIVE SeqToSet(_)
SeqToSet(s) == IF s = << >> THEN {} ELSE { Head(s) } \cup SeqToSet(Tail(s))


-----------------------------------------------------------------------------
(***************************************************************************)
(* Content hasher (spec 4.2): a collision-resistant digest, modelled as an  *)
(* injective constructor.                                                   *)
(***************************************************************************)
Digest(content) == << "sha256", content >>

(***************************************************************************)
(* Ed25519 (spec 4.3, 4.4), symbolically: keypair k has the private key     *)
(* <<"priv", k>> and the public key <<"pub", k>>; a signature records what  *)
(* was signed and by which keypair, and verifies under that keypair's       *)
(* public key only.                                                         *)
(***************************************************************************)
PrivateKey(k) == << "priv", k >>
PublicKey(k) == << "pub", k >>
Ed25519Sign(priv, msg) == << "sig", msg, priv[2] >>
Ed25519Verify(pub, sig, msg) == sig[2] = msg /\ sig[3] = pub[2]

(***************************************************************************)
(* ManifestModel.  Optional fields hold None or Some(v).                    *)
(***************************************************************************)
ManifestFields ==
    { "cli_command", "created_at", "goal", "notes", "metrics", "approved_by",
      "tags", "digests", "signature" }

ManifestModel(cli_command, created_at, meta) ==
    [ cli_command |-> cli_command,
      created_at  |-> created_at,
      goal        |-> meta.goal,
      notes       |-> meta.notes,
      metrics     |-> meta.metrics,
      approved_by |-> meta.approved_by,
      tags        |-> meta.tags,
      digests     |-> << >>,
      signature   |-> None ]

(***************************************************************************)
(* Canonical serializer (spec 4.1): every field but the signature block, by *)
(* field name, so that it does not depend on construction order and changes *)
(* with any field value.                                                    *)
(***************************************************************************)
CanonicalBytes(m) ==
    << "canonical", [ f \in (DOMAIN m) \ { "signature" } |-> m[f] ] >>

\* the signing target: hash-then-sign
CanonicalHash(m) == Digest(CanonicalBytes(m))

(***************************************************************************)
(* Trust layer (spec 4.4).                                                  *)
(***************************************************************************)
SignManifest(m, priv, signer_name, t) ==
    [ m EXCEPT !.signature =
        Some([ signer    |-> signer_name,
               algorithm |-> "ed25519",
               signature |-> Ed25519Sign(priv, CanonicalHash(m)),
               signed_at |-> t ]) ]

VerifySignature(m, pub) ==
    IF m.signature = None
    THEN [ valid |-> FALSE, reason |-> "NoSignature" ]
    ELSE IF Ed25519Verify(pub, m.signature[1].signature, CanonicalHash(m))
         THEN [ valid |-> TRUE, reason |-> "Signature valid" ]
         ELSE [ valid |-> FALSE, reason |-> "Signature rejected" ]

GetSignerName(signature) == signature.signer

(***************************************************************************)
(* JSON.  model_dump_json writes every field, None as null, a timestamp as  *)
(* an ISO string, the signature bytes as base64; json.loads and the model   *)
(* constructor read them back.  A JSON document is <<"json", object>>; any  *)
(* other manifest payload does not decode.                                  *)
(***************************************************************************)
JNull == << "null" >>
JStr(s) == << "string", s >>
JNum(x) == << "number", x >>
JOptStr(o) == IF o = None THEN JNull ELSE JStr(o[1])
IsoFormat(t) == JStr(<< "iso8601", t >>)
JMetric(v) == IF v[1] = "float" THEN JNum(v[2]) ELSE JStr(v[2])
JMetrics(d) == << "object", [ k \in DOMAIN d |-> JMetric(d[k]) ] >>
JTags(s) == << "array", [ i \in DOMAIN s |-> JStr(s[i]) ] >>
JDigests(d) == << "object", [ n \in DOMAIN d |-> JStr(<< "hex", d[n] >>) ] >>
JSignature(sg) ==
    << "object",
       [ signer    |-> JStr(sg.signer),
         algorithm |-> JStr(sg.algorithm),
         signature |-> JStr(<< "base64", sg.signature >>),
         signed_at |-> IsoFormat(sg.signed_at) ] >>

ModelDumpJson(m) ==
    << "json",
       [ cli_command |-> JStr(m.cli_command),
         created_at  |-> IsoFormat(m.created_at),
         goal        |-> JOptStr(m.goal),
         notes       |-> JOptStr(m.notes),
         metrics     |-> IF m.metrics = None THEN JNull ELSE JMetrics(m.metrics[1]),
         approved_by |-> JOptStr(m.approved_by),
         tags        |-> IF m.tags = None THEN JNull ELSE JTags(m.tags[1]),
         digests     |-> JDigests(m.digests),
         signature   |-> IF m.signature = None THEN JNull
                         ELSE JSignature(m.signature[1]) ] >>

POptStr(j) == IF j = JNull THEN None ELSE Some(j[2])
PStr(j) == j[2]
PIso(j) == j[2][2]
PMetric(j) == IF j[1] = "number" THEN << "float", j[2] >> ELSE << "str", j[2] >>
PMetrics(j) == [ k \in DOMAIN j[2] |-> PMetric(j[2][k]) ]
PTags(j) == [ i \in DOMAIN j[2] |-> PStr(j[2][i]) ]
PDigests(j) == [ n \in DOMAIN j[2] |-> j[2][n][2][2] ]
PSignature(j) ==
    [ signer    |-> PStr(j[2].signer),
      algorithm |-> PStr(j[2].algorithm),
      signature |-> j[2].signature[2][2],
      signed_at |-> PIso(j[2].signed_at) ]

IsJson(payload) == payload[1] = "json"

\* json.loads(raw) followed by ManifestModel(**data)
ManifestFromJson(payload) ==
    LET o == payload[2]
    IN  [ cli_command |-> PStr(o.cli_command),
          created_at  |-> PIso(o.created_at),
          goal        |-> POptStr(o.goal),
          notes       |-> POptStr(o.notes),
          metrics     |-> IF o.metrics = JNull THEN None ELSE Some(PMetrics(o.metrics)),
          approved_by |-> POptStr(o.approved_by),
          tags        |-> IF o.tags = JNull THEN None ELSE Some(PTags(o.tags)),
          digests     |-> PDigests(o.digests),
          signature   |-> IF o.signature = JNull THEN None
                          ELSE Some(PSignature(o.signature)) ]

\* a manifest payload that is not JSON
Garbage == << "garbage" >>

-----------------------------------------------------------------------------
(***************************************************************************)
(* Files.  A file is absent, or a zip archive: the entry names in the order *)
(* they were written (namelist), their payloads, and whether the archive    *)
(* was closed (its central directory written), without which it cannot be   *)
(* opened.  A file that two writers had open together is torn: each wrote   *)
(* at its own offset, and what is left is no archive.                       *)
(***************************************************************************)
NoFile ==
    [ exists |-> FALSE, sealed |-> FALSE, torn |-> FALSE, names |-> << >>, data |-> << >> ]
EmptyZip ==
    [ exists |-> TRUE, sealed |-> FALSE, torn |-> FALSE, names |-> << >>, data |-> << >> ]
Torn ==
    [ exists |-> TRUE, sealed |-> FALSE, torn |-> TRUE, names |-> << >>, data |-> << >> ]

\* ZipFile.writestr(name, payload)
WriteStr(zip, name, payload) ==
    IF zip.torn THEN zip
    ELSE [ zip EXCEPT !.names = Append(@, name), !.data = (name :> payload) @@ @ ]

\* ZipFile.close()
CloseZip(zip) == IF zip.torn THEN zip ELSE [ zip EXCEPT !.sealed = TRUE ]

\* ZipFile(path, "r") succeeds
Readable(file) == file.exists /\ file.sealed

(***************************************************************************)
(* Container packer / reader and integrity verifier (spec 4.5, 4.6).        *)
(***************************************************************************)
\* pack: digest every file of the source directory and the bundled viewer,
\* merge the digests into the manifest, write all entries and the manifest
Pack(source, template) ==
    LET entries == source @@ (VIEWER :> ViewerAsset)
        order == SelectSeq(WorkspaceFiles, LAMBDA n : n \in DOMAIN source)
                     \o << VIEWER >>
        sealedManifest ==
            [ template EXCEPT !.digests = [ n \in DOMAIN entries |-> Digest(entries[n]) ] ]
    IN  [ exists |-> TRUE,
          sealed |-> TRUE,
          torn   |-> FALSE,
          names  |-> Append(order, MANIFEST),
          data   |-> entries @@ (MANIFEST :> ModelDumpJson(sealedManifest)) ]

\* read_manifest: <<"ok", manifest>>, or <<"error", kind>> for what it raises
ReadManifest(file) ==
    IF ~file.exists THEN << "error", "NotFound" >>
    ELSE IF ~file.sealed THEN << "error", "CorruptArchive" >>
    ELSE IF MANIFEST \notin DOMAIN file.data THEN << "error", "CorruptArchive" >>
    ELSE IF ~IsJson(file.data[MANIFEST]) THEN << "error", "CorruptArchive" >>
    ELSE << "ok", ManifestFromJson(file.data[MANIFEST]) >>

\* verify_integrity of an archive whose manifest reads: a digest-mapped entry
\* that is missing or differs, or an entry other than the manifest that the
\* digest mapping does not list
Mismatches(file) ==
    LET digests == ReadManifest(file)[2].digests
    IN  { n \in DOMAIN digests :
            \/ n \notin DOMAIN file.data
            \/ Digest(file.data[n]) # digests[n] }
        \cup { n \in (DOMAIN file.data) \ { MANIFEST } : n \notin DOMAIN digests }

VerifyIntegrity(file) ==
    [ ok |-> Mismatches(file) = {}, mismatches |-> Mismatches(file) ]

(***************************************************************************)
(* Keystore (spec 4.3): per name, the private and the public key file.      *)
(***************************************************************************)
KeyNames == { "default", "alice" }
NoKeys == [ n \in KeyNames |-> [ priv |-> None, pub |-> None ] ]
KeyPair(k) == [ priv |-> Some(PrivateKey(k)), pub |-> Some(PublicKey(k)) ]
HasKey(ks, name) == ks[name].priv # None \/ ks[name].pub # None
GenerateKeypair(keys, name, k) == [ keys EXCEPT ![name] = KeyPair(k) ]

\* KeyManager.generate_keypair(name, overwrite): << "ok", "", keystore >>, or
\* << "raise", "AlreadyExists", keystore >> for the FileExistsError
GenerateKeypairOverwrite(keys, name, overwrite, k) ==
    IF HasKey(keys, name) /\ ~overwrite
    THEN << "raise", "AlreadyExists", keys >>
    ELSE << "ok", "", GenerateKeypair(keys, name, k) >>

\* KeyManager.export_public_key(name): the key file must be there
ExportPublicKey(keys, name) ==
    IF keys[name].pub = None
    THEN << "raise", "NotFound", keys >>
    ELSE << "ok", "", keys >>

\* the actions `epi keys` is given: the three it knows and one it does not
KeysActions == { "generate", "list", "export", "rotate" }

\* main.py, lines 135-161: the body of the keys command
KeysBody(keys, action, name, overwrite, k) ==
    CASE action = "generate" -> GenerateKeypairOverwrite(keys, name, overwrite, k)
      [] action = "list" -> << "ok", "", keys >>
      [] action = "export" -> ExportPublicKey(keys, name)
      [] OTHER -> << "raise", "Unknown action", keys >>

\* the bug of ending the command normally after the error
KeysExitCodeSwallowed(result) == IF result[1] = "raise" THEN 0 ELSE 0

\* main.py, lines 141-143, 154-156, 158-161: an error becomes typer.Exit(1)
KeysExitCode(result) == IF result[1] = "raise" THEN 1 ELSE 0

NoCommand ==
    [ ran |-> FALSE, action |-> "list", name |-> "default", overwrite |-> FALSE,
      before |-> NoKeys, error |-> "", exit_code |-> 0 ]

(***************************************************************************)
(* _verify_recording.  An outcome is <<"return", success, message>> or      *)
(* <<"raise", FALSE, <<exception, "">>>>; a message is <<text, detail>>.    *)
(***************************************************************************)
Return(success, text, detail) == << "return", success, << text, detail >> >>
Raise(exception) == << "raise", FALSE, << exception, "" >> >>

\* the bug of not looking at what verify_signature returned
VerifySignedIgnoringResult(manifest, keys) ==
    LET signer_name == GetSignerName(manifest.signature[1])
        name == IF signer_name = "" THEN "default" ELSE signer_name
    IN  IF name \notin KeyNames \/ keys[name].pub = None
        THEN Return(TRUE, "OK (unsigned - no public key)", "")
        ELSE Return(TRUE, "OK (signed & verified)", "")

\* the bug of reporting a missing public key as an unsigned recording
VerifySignedConflating(manifest, keys) ==
    LET signer_name == GetSignerName(manifest.signature[1])
        name == IF signer_name = "" THEN "default" ELSE signer_name
    IN  IF name \notin KeyNames \/ keys[name].pub = None
        THEN Return(TRUE, "OK (unsigned)", "")
        ELSE LET v == VerifySignature(manifest, keys[name].pub[1])
             IN  IF v.valid
                 THEN Return(TRUE, "OK (signed & verified)", "")
                 ELSE Return(FALSE, "Signature invalid", v.reason)

\* lines 112-125: the manifest carries a signature
VerifySigned(manifest, keys) ==
    LET signer_name == GetSignerName(manifest.signature[1])
        name == IF signer_name = "" THEN "default" ELSE signer_name
    IN  IF name \notin KeyNames \/ keys[name].pub = None
        THEN Return(TRUE, "OK (unsigned - no public key)", "")
        ELSE LET v == VerifySignature(manifest, keys[name].pub[1])
             IN  IF v.valid
                 THEN Return(TRUE, "OK (signed & verified)", "")
                 ELSE Return(FALSE, "Signature invalid", v.reason)

\* the bug of checking the signature only
VerifyRecordingSkippingIntegrity(file, keys) ==
    LET read == ReadManifest(file)
    IN  IF read[1] = "error" THEN Raise(read[2])
        ELSE IF read[2].signature # None
        THEN VerifySigned(read[2], keys)
        ELSE Return(TRUE, "OK (unsigned)", "")

\* lines 105-127: the body of the try
VerifyRecordingBody(file, keys) ==
    LET read == ReadManifest(file)
    IN  IF read[1] = "error" THEN Raise(read[2])
        ELSE IF ~VerifyIntegrity(file).ok
        THEN Return(FALSE, "Integrity check failed",
                    ToString(Cardinality(VerifyIntegrity(file).mismatches)))
        ELSE IF read[2].signature # None
        THEN VerifySigned(read[2], keys)
        ELSE Return(TRUE, "OK (unsigned)", "")

\* the bug of letting the exception out
VerifyRecordingUncaught(file, keys) == VerifyRecordingBody(file, keys)

\* lines 104-130: any exception becomes (False, "Verification failed: ...")
VerifyRecording(file, keys) ==
    LET body == VerifyRecordingBody(file, keys)
    IN  IF body[1] = "raise"
        THEN Return(FALSE, "Verification failed", body[3][1])
        ELSE body

-----------------------------------------------------------------------------
(***************************************************************************)
(* The inputs of run: the script path, the flags and the metadata options.  *)
(***************************************************************************)
ScriptPath(dir, stem, suffix, exists) ==
    [ dir |-> dir, stem |-> stem, suffix |-> suffix, exists |-> exists ]
Scripts ==
    { ScriptPath("a", "demo", ".py", TRUE),
      ScriptPath("b", "demo", ".py", TRUE),
      ScriptPath("a", "missing", ".py", FALSE) }

\* a --metric argument: key=value, or a word without "="
MetricArg(key, value) == << key, "=", value >>
BadMetricArg(word) == << word >>
\* float(value) succeeds on a numeric literal
IsFloatLiteral(value) == value[1] = "literal"

\* run, lines 183-195: None without --metric, else the parsed key=value pairs
ParseMetrics(metric) ==
    IF metric = << >> THEN None
    ELSE LET valid == { i \in DOMAIN metric : Len(metric[i]) = 3 }
             keys == { metric[i][1] : i \in valid }
             \* a later argument with the same key overwrites an earlier one
             last(k) == CHOOSE i \in valid :
                            /\ metric[i][1] = k
                            /\ \A j \in valid : metric[j][1] = k => j <= i
             conv(v) == IF IsFloatLiteral(v) THEN << "float", v[2] >>
                        ELSE << "str", v[2] >>
         IN  Some([ k \in keys |-> conv(metric[last(k)][3]) ])

NoOptions ==
    [ goal |-> None, notes |-> None, metric |-> << >>, approved_by |-> None,
      tag |-> None ]
AllOptions ==
    [ goal        |-> Some("improve accuracy"),
      notes       |-> Some("test run"),
      metric      |-> << MetricArg("accuracy", << "literal", 92 >>),
                         MetricArg("mode", << "word", "fast" >>),
                         BadMetricArg("latency") >>,
      approved_by |-> Some("bob"),
      tag         |-> Some(<< "test", "v1" >>) ]
Options == { NoOptions, AllOptions }

\* the keyword arguments of ManifestModel(...) at lines 229-236
Metadata(opts) ==
    [ goal |-> opts.goal, notes |-> opts.notes, metrics |-> ParseMetrics(opts.metric),
      approved_by |-> opts.approved_by, tags |-> opts.tag ]

\* _ensure_python_command and the shlex-quoted join of line 230
CliCommand(script) ==
    IF script.suffix = ".py"
    THEN << "python", script.dir, script.stem, script.suffix >>
    ELSE << script.dir, script.stem, script.suffix >>

(***************************************************************************)
(* Paths.  _gen_auto_name: epi-recordings/<stem>_<YYYYmmdd_HHMMSS>.epi, the *)
(* UTC time cut to the second.                                              *)
(***************************************************************************)
Timestamp(t) == t \div TicksPerSecond
GenAutoName(script, t) ==
    << IF script.stem = "-" /\ script.suffix = "" THEN "recording" ELSE script.stem,
       Timestamp(t), ".epi" >>
\* the bug of rewriting the archive where it stands
TempZipInPlace(out) == out

\* out.with_suffix(".epi.tmp")
WithSuffix(path, suffix) == << path[1], path[2], suffix >>
TempZip(out) == WithSuffix(out, ".epi.tmp")
NoPath == << "", 0, "" >>
AllPaths ==
    { GenAutoName(s, t) : s \in Scripts, t \in Clock }
        \cup { TempZip(GenAutoName(s, t)) : s \in Scripts, t \in Clock }

-----------------------------------------------------------------------------
(***************************************************************************)
(* AsyncRecorder and record_async (async_api.py).  One recorder: its        *)
(* fields, the recording context that is current, the caller's position,    *)
(* and the flush worker task.  The step queue is an asyncio.Queue: put      *)
(* counts an unfinished task, task_done takes one off, join returns when    *)
(* none is left.                                                            *)
(***************************************************************************)
SHUTDOWN == "None"
STEP == "step"

\* lines 41-44: the RecordingContext start() creates
RecordingContext(output_dir, enable_redaction, has_storage) ==
    [ output_dir |-> output_dir, enable_redaction |-> enable_redaction,
      storage |-> has_storage ]

\* line 104: what context.storage.finalize() returns
StorageFinalize(context) == << context.output_dir, "finalized" >>

\* lines 103-106
FinalPath(context, output_dir) ==
    IF context # None /\ context[1].storage
    THEN StorageFinalize(context[1])
    ELSE << output_dir, "steps.jsonl" >>

\* lines 24-37 and 134: a recorder as constructed, and what its user will do
Recorder(via, output_dir, enable_redaction, has_storage, starts, body) ==
    [ pc               |-> "new",
      via              |-> via,
      output_dir       |-> output_dir,
      enable_redaction |-> enable_redaction,
      has_storage      |-> has_storage,
      starts           |-> starts,
      body             |-> body,
      context          |-> None,
      token            |-> None,
      current          |-> None,
      has_queue        |-> FALSE,
      queue            |-> << >>,
      unfinished       |-> 0,
      worker           |-> "none",
      timeouts         |-> 0,
      steps_put        |-> 0,
      stop_calls       |-> 0,
      final_path       |-> None,
      outcome          |-> "pending" ]

NoRecorder == [ Recorder("direct", "out", TRUE, FALSE, FALSE, "return") EXCEPT !.pc = "off" ]

-----------------------------------------------------------------------------
(***************************************************************************)
(* State.                                                                   *)
(*   now      the wall clock, in ticks                                      *)
(*   fs       the file at each path of epi-recordings/                      *)
(*   ks       the keystore; nextKey is the next keypair it generates        *)
(*   proc     per recording: the position in run (pc), its arguments and    *)
(*            its local variables, named as in run.py; `packed` remembers   *)
(*            the archive as pack wrote it                                  *)
(*   observed what a reader that opened the output path during the re-sign  *)
(*            step found there                                              *)
(*   envSteps the steps the environment has taken                           *)
(*   faulty   whether writes to the disk can fail                           *)
(***************************************************************************)
VARIABLES now, fs, ks, nextKey, proc, observed, envSteps, faulty, keysCmd, rec

vars == << now, fs, ks, nextKey, proc, observed, envSteps, faulty, keysCmd, rec >>

NoMessage == << "Skipped", "" >>

Locals(script, no_verify, no_open, opts, child, pc) ==
    [ pc            |-> pc,
      script        |-> script,
      no_verify     |-> no_verify,
      no_open       |-> no_open,
      opts          |-> opts,
      child         |-> child,
      out           |-> NoPath,
      workspace     |-> << >>,
      child_state   |-> "not started",
      logs_open     |-> FALSE,
      rc            |-> 0,
      source        |-> << >>,
      packed        |-> NoFile,
      priv          |-> None,
      signed_json   |-> Garbage,
      zf_in         |-> NoFile,
      item          |-> 0,
      signed        |-> FALSE,
      verified      |-> FALSE,
      verify_msg    |-> NoMessage,
      viewer_opened |-> FALSE,
      exit_code     |-> None ]

\* what the recorded child does: its return code and what it prints
Children == [ rc : 0 .. MaxRc, stdout : Payloads ]
Quiet == [ rc |-> 0, stdout |-> Bytes(0) ]

Idle == Locals(ScriptPath("a", "demo", ".py", TRUE), FALSE, FALSE, NoOptions, Quiet, "off")

\* the keystore before the first command: empty, or holding a default keypair
InitKeys ==
    /\ \/ ks = NoKeys /\ nextKey = 1
       \/ ks = [ NoKeys EXCEPT !["default"] = KeyPair(1) ] /\ nextKey = 2

InitCommon ==
    /\ now = 0
    /\ fs = [ p \in AllPaths |-> NoFile ]
    /\ InitKeys
    /\ observed = NoFile
    /\ envSteps = 0
    /\ keysCmd = NoCommand

\* one recording, any arguments, on a disk that can fail
Init ==
    /\ InitCommon
    /\ rec = NoRecorder
    /\ faulty = TRUE
    /\ \E s \in Scripts, nv \in BOOLEAN, no \in BOOLEAN, o \in Options, c \in Children :
          proc = [ r \in Runs |-> IF r = 1 THEN Locals(s, nv, no, o, c, "callback") ELSE Idle ]

At(r, pc) == proc[r].pc = pc
Set(r, fields) == proc' = [ proc EXCEPT ![r] = fields @@ @ ]

(***************************************************************************)
(* main_callback, before any command: generate the default keypair when it  *)
(* is missing.                                                              *)
(***************************************************************************)
\* the bug of generating the default keypair whether or not there is one
MainCallbackRegenerating(r) ==
    /\ At(r, "callback")
    /\ nextKey <= MaxKeys
    /\ ks' = GenerateKeypair(ks, "default", nextKey)
    /\ nextKey' = nextKey + 1
    /\ Set(r, [ pc |-> "start" ])
    /\ UNCHANGED << now, fs, observed, envSteps, faulty, keysCmd, rec >>

MainCallback(r) ==
    /\ At(r, "callback")
    /\ IF HasKey(ks, "default")
       THEN UNCHANGED << ks, nextKey >>
       ELSE /\ nextKey <= MaxKeys
            /\ ks' = GenerateKeypair(ks, "default", nextKey)
            /\ nextKey' = nextKey + 1
    /\ Set(r, [ pc |-> "start" ])
    /\ UNCHANGED << now, fs, observed, envSteps, faulty, keysCmd, rec >>

(***************************************************************************)
(* run, lines 177-218: the script must exist; the output path is generated  *)
(* from the script's stem and the clock.                                    *)
(***************************************************************************)
RunStart(r) ==
    /\ At(r, "start")
    /\ IF ~proc[r].script.exists
       THEN Set(r, [ pc |-> "done", exit_code |-> Some(1) ])
       ELSE Set(r, [ pc |-> "popen", out |-> GenAutoName(proc[r].script, now),
                     workspace |-> ("env.json" :> Bytes(0)) ])
    /\ UNCHANGED << now, fs, ks, nextKey, observed, envSteps, faulty, keysCmd, rec >>

\* lines 223-224: the log files are opened and the child is started
Popen(r) ==
    /\ At(r, "popen")
    /\ Set(r, [ pc |-> "wait", child_state |-> "running", logs_open |-> TRUE,
                workspace |-> ("stdout.log" :> Bytes(0)) @@ ("stderr.log" :> Bytes(0))
                                  @@ proc[r].workspace ])
    /\ UNCHANGED << now, fs, ks, nextKey, observed, envSteps, faulty, keysCmd, rec >>

\* the recorded child: it writes its step log and its output, and exits
ChildRun(r) ==
    /\ proc[r].child_state = "running"
    /\ Set(r, [ child_state |-> "exited",
                workspace |-> ("steps.jsonl" :> Bytes(0))
                                  @@ ("stdout.log" :> proc[r].child.stdout)
                                  @@ proc[r].workspace ])
    /\ UNCHANGED << now, fs, ks, nextKey, observed, envSteps, faulty, keysCmd, rec >>

\* the bug of not waiting for the child
ChildStarted(r) == proc[r].child_state \in { "running", "exited" }

\* line 225: proc.wait() returns once the child has exited
ChildExited(r) == proc[r].child_state = "exited"

\* lines 225-226: the return code is taken and the with-block closes the logs
Wait(r) ==
    /\ At(r, "wait")
    /\ ChildExited(r)
    /\ Set(r, [ pc |-> "pack", rc |-> proc[r].child.rc, logs_open |-> FALSE ])
    /\ UNCHANGED << now, fs, ks, nextKey, observed, envSteps, faulty, keysCmd, rec >>

\* lines 228-239: build the manifest and pack the workspace
PackedArchive(r) ==
    Pack(proc[r].workspace,
         ManifestModel(CliCommand(proc[r].script), now, Metadata(proc[r].opts)))

PackStep(r) ==
    /\ At(r, "pack")
    /\ fs' = [ fs EXCEPT ![proc[r].out] = PackedArchive(r) ]
    /\ Set(r, [ pc |-> "autosign", source |-> proc[r].workspace,
                packed |-> PackedArchive(r) ])
    /\ UNCHANGED << now, ks, nextKey, observed, envSteps, faulty, keysCmd, rec >>

(***************************************************************************)
(* Auto-sign, lines 241-272.  Any exception ends the step: run goes on to   *)
(* verification with signed = False.                                        *)
(***************************************************************************)
\* whether a step that can fail does: only a faulty disk makes it
Faults == IF faulty THEN BOOLEAN ELSE { FALSE }

\* the bug of ending run when the auto-sign step fails
AfterSignFailureFatal == "done"

\* lines 271-272: `except Exception: pass`, and run goes on to verify
AfterSignFailure == "verify"

\* lines 244-245: the key is missing, or its file cannot be read
LoadKey(r) ==
    /\ At(r, "autosign")
    /\ \E fails \in Faults :
          IF fails \/ ks["default"].priv = None
          THEN Set(r, [ pc |-> AfterSignFailure ])
          ELSE Set(r, [ pc |-> "read", priv |-> ks["default"].priv ])
    /\ UNCHANGED << now, fs, ks, nextKey, observed, envSteps, faulty, keysCmd, rec >>

\* the bug of rebuilding the manifest without its digest mapping
SignedJsonWithoutDigests(raw, priv, t) ==
    ModelDumpJson(SignManifest([ ManifestFromJson(raw) EXCEPT !.digests = << >> ],
                               priv, "default", t))

\* the bug of signing a manifest rebuilt without its metadata
SignedJsonWithoutMetadata(raw, priv, t) ==
    ModelDumpJson(SignManifest([ ManifestFromJson(raw) EXCEPT !.goal = None,
                                                                !.metrics = None ],
                               priv, "default", t))

\* the bug of stamping the manifest anew after it was signed
SignedJsonRestamped(raw, priv, t) ==
    ModelDumpJson([ SignManifest(ManifestFromJson(raw), priv, "default", t)
                      EXCEPT !.created_at = t + 1 ])

\* lines 250-258: parse the manifest, sign it as "default", dump it
SignedJson(raw, priv, t) ==
    ModelDumpJson(SignManifest(ManifestFromJson(raw), priv, "default", t))

\* lines 249-258
ReadAndSign(r) ==
    /\ At(r, "read")
    /\ \E fails \in Faults :
          LET file == fs[proc[r].out]
          IN  IF /\ ~fails
                 /\ Readable(file)
                 /\ MANIFEST \in DOMAIN file.data
                 /\ IsJson(file.data[MANIFEST])
              THEN Set(r, [ pc |-> "open",
                            signed_json |-> SignedJson(file.data[MANIFEST], proc[r].priv[1], now) ])
              ELSE Set(r, [ pc |-> AfterSignFailure ])
    /\ UNCHANGED << now, fs, ks, nextKey, observed, envSteps, faulty, keysCmd, rec >>

\* what a failed write leaves at the temporary path: the with-block closes
\* the archive (partial but closed), or the close fails as well
LeftBehind(zip) == IF zip.exists THEN { zip, CloseZip(zip) } ELSE { zip }

\* another recording has `path` open for writing.  After such a collision
\* the model follows what lies at the path, not each writer's open handle.
WriterOpen(r, path) ==
    \E q \in Runs \ { r } :
        proc[q].pc \in { "copy", "manifest" } /\ TempZip(proc[q].out) = path

\* lines 261-263: open the archive for reading and the temporary for writing
OpenZips(r) ==
    /\ At(r, "open")
    /\ \/ /\ Readable(fs[proc[r].out])
          /\ fs' = [ fs EXCEPT ![TempZip(proc[r].out)] =
                        IF WriterOpen(r, TempZip(proc[r].out)) THEN Torn ELSE EmptyZip ]
          /\ Set(r, [ pc |-> "copy", zf_in |-> fs[proc[r].out], item |-> 1 ])
       \/ /\ faulty \/ ~Readable(fs[proc[r].out])
          /\ UNCHANGED fs
          /\ Set(r, [ pc |-> AfterSignFailure ])
    /\ UNCHANGED << now, ks, nextKey, observed, envSteps, faulty, keysCmd, rec >>

\* the bug of leaving the viewer out as well
CopyItemSkippingViewer(zip, zf_in, name) ==
    IF name # MANIFEST /\ name # VIEWER THEN WriteStr(zip, name, zf_in.data[name]) ELSE zip

\* lines 265-266: one iteration of the loop
CopyItemInto(zip, zf_in, name) ==
    IF name # MANIFEST THEN WriteStr(zip, name, zf_in.data[name]) ELSE zip

\* lines 264-266
CopyItem(r) ==
    /\ At(r, "copy")
    /\ LET temp_zip == TempZip(proc[r].out)
           zf_in == proc[r].zf_in
       IN  IF proc[r].item > Len(zf_in.names)
           THEN /\ UNCHANGED fs
                /\ Set(r, [ pc |-> "manifest" ])
           ELSE \/ /\ fs[temp_zip].exists
                   /\ fs' = [ fs EXCEPT ![temp_zip] =
                                CopyItemInto(@, zf_in, zf_in.names[proc[r].item]) ]
                   /\ Set(r, [ item |-> proc[r].item + 1 ])
                \/ /\ faulty \/ ~fs[temp_zip].exists
                   /\ \E left \in LeftBehind(fs[temp_zip]) :
                         fs' = [ fs EXCEPT ![temp_zip] = left ]
                   /\ Set(r, [ pc |-> AfterSignFailure ])
    /\ UNCHANGED << now, ks, nextKey, observed, envSteps, faulty, keysCmd, rec >>

\* line 267 and the end of the with-blocks: write the manifest, close
WriteManifest(r) ==
    /\ At(r, "manifest")
    /\ LET temp_zip == TempZip(proc[r].out)
       IN  \/ /\ fs[temp_zip].exists
              /\ fs' = [ fs EXCEPT ![temp_zip] =
                            CloseZip(WriteStr(@, MANIFEST, proc[r].signed_json)) ]
              /\ Set(r, [ pc |-> "replace" ])
           \/ /\ faulty \/ ~fs[temp_zip].exists
              /\ \E left \in LeftBehind(fs[temp_zip]) :
                    fs' = [ fs EXCEPT ![temp_zip] = left ]
              /\ Set(r, [ pc |-> AfterSignFailure ])
    /\ UNCHANGED << now, ks, nextKey, observed, envSteps, faulty, keysCmd, rec >>

\* lines 269-270: temp_zip.replace(out), atomically
Replace(r) ==
    /\ At(r, "replace")
    /\ LET temp_zip == TempZip(proc[r].out)
       IN  \/ /\ fs[temp_zip].exists
              /\ fs' = [ p \in AllPaths |->
                           IF p = proc[r].out THEN fs[temp_zip]
                           ELSE IF p = temp_zip THEN NoFile ELSE fs[p] ]
              /\ Set(r, [ pc |-> "verify", signed |-> TRUE ])
           \/ /\ faulty \/ ~fs[temp_zip].exists
              /\ UNCHANGED fs
              /\ Set(r, [ pc |-> AfterSignFailure ])
    /\ UNCHANGED << now, ks, nextKey, observed, envSteps, faulty, keysCmd, rec >>

(***************************************************************************)
(* Verify, open the viewer, exit: lines 274-318.                            *)
(***************************************************************************)
Verify(r) ==
    /\ At(r, "verify")
    /\ IF proc[r].no_verify
       THEN Set(r, [ pc |-> "viewer" ])
       ELSE LET result == VerifyRecording(fs[proc[r].out], ks)
            IN  IF result[1] = "raise"
                THEN Set(r, [ pc |-> "raised", verify_msg |-> result[3] ])
                ELSE Set(r, [ pc |-> "viewer", verified |-> result[2],
                              verify_msg |-> result[3] ])
    /\ UNCHANGED << now, fs, ks, nextKey, observed, envSteps, faulty, keysCmd, rec >>

\* _open_viewer can extract the viewer: then the browser decides
CanExtractViewer(file) == Readable(file) /\ VIEWER \in SeqToSet(file.names)

\* the bug of opening the viewer whatever verification said
ShouldOpenUnverified(no_open, rc, verified) == ~no_open /\ rc = 0

\* line 282: the condition under which _open_viewer is called
ShouldOpen(no_open, rc, verified) == ~no_open /\ rc = 0 /\ verified

OpenViewer(r) ==
    /\ At(r, "viewer")
    /\ IF ShouldOpen(proc[r].no_open, proc[r].rc, proc[r].verified)
       THEN \E opened \in BOOLEAN :
               /\ opened => CanExtractViewer(fs[proc[r].out])
               /\ Set(r, [ pc |-> "exit", viewer_opened |-> opened ])
       ELSE Set(r, [ pc |-> "exit" ])
    /\ UNCHANGED << now, fs, ks, nextKey, observed, envSteps, faulty, keysCmd, rec >>

\* the bug of looking at the verification before the child's return code
ExitCodeVerifyFirst(rc, verified, no_verify) ==
    IF ~verified /\ ~no_verify THEN 1 ELSE rc

\* lines 313-318
ExitCode(rc, verified, no_verify) ==
    IF rc # 0 THEN rc
    ELSE IF ~verified /\ ~no_verify THEN 1
    ELSE 0

Exit(r) ==
    /\ At(r, "exit")
    /\ Set(r, [ pc |-> "done",
                exit_code |-> Some(ExitCode(proc[r].rc, proc[r].verified, proc[r].no_verify)) ])
    /\ UNCHANGED << now, fs, ks, nextKey, observed, envSteps, faulty, keysCmd, rec >>

RunStep(r) ==
    \/ MainCallback(r) \/ RunStart(r) \/ Popen(r) \/ ChildRun(r) \/ Wait(r)
    \/ PackStep(r)
    \/ LoadKey(r) \/ ReadAndSign(r) \/ OpenZips(r) \/ CopyItem(r)
    \/ WriteManifest(r) \/ Replace(r)
    \/ Verify(r) \/ OpenViewer(r) \/ Exit(r)

(***************************************************************************)
(* The environment: whoever can write to epi-recordings/ or to the          *)
(* keystore, acting after pack and before the re-sign step begins, or after *)
(* the re-sign step and before verification.                                *)
(***************************************************************************)
\* the key names run signs and verifies with
SignerNames == { "default" }

EnvWindow(r) == proc[r].pc \in { "autosign", "verify" } /\ envSteps < MaxEnv

\* change the bytes of one entry other than the manifest
TamperEntry(r) ==
    /\ EnvWindow(r)
    /\ fs[proc[r].out].exists
    /\ \E e \in (DOMAIN fs[proc[r].out].data) \ { MANIFEST } :
          \E v \in Payloads \ { fs[proc[r].out].data[e] } :
             fs' = [ fs EXCEPT ![proc[r].out].data[e] = v ]
    /\ envSteps' = envSteps + 1
    /\ UNCHANGED << now, ks, nextKey, proc, observed, faulty, keysCmd, rec >>

\* another value for a manifest field
Altered(f, v) ==
    CASE f = "cli_command" -> << "python", "a", "other", ".py" >>
      [] f = "created_at" -> v + 1
      [] f = "metrics" ->
            IF v = None THEN Some(("accuracy" :> << "float", 100 >>)) ELSE None
      [] f = "tags" -> IF v = None THEN Some(<< "edited" >>) ELSE None
      [] f = "digests" -> [ v EXCEPT ![VIEWER] = Digest(Bytes(MaxByte + 1)) ]
      [] OTHER -> IF v = None THEN Some("edited") ELSE None

\* edit one field of the manifest in place, leaving the signature block alone
TamperManifest(r) ==
    /\ EnvWindow(r)
    /\ ReadManifest(fs[proc[r].out])[1] = "ok"
    /\ \E f \in ManifestFields \ { "signature" } :
          LET m == ReadManifest(fs[proc[r].out])[2]
          IN  fs' = [ fs EXCEPT ![proc[r].out].data[MANIFEST] =
                        ModelDumpJson([ m EXCEPT ![f] = Altered(f, m[f]) ]) ]
    /\ envSteps' = envSteps + 1
    /\ UNCHANGED << now, ks, nextKey, proc, observed, faulty, keysCmd, rec >>

\* overwrite the manifest entry with bytes that do not decode
CorruptManifest(r) ==
    /\ EnvWindow(r)
    /\ fs[proc[r].out].exists
    /\ fs[proc[r].out].data[MANIFEST] # Garbage
    /\ fs' = [ fs EXCEPT ![proc[r].out].data[MANIFEST] = Garbage ]
    /\ envSteps' = envSteps + 1
    /\ UNCHANGED << now, ks, nextKey, proc, observed, faulty, keysCmd, rec >>

\* remove the archive from the output path
DeleteArchive(r) ==
    /\ EnvWindow(r)
    /\ fs[proc[r].out].exists
    /\ fs' = [ fs EXCEPT ![proc[r].out] = NoFile ]
    /\ envSteps' = envSteps + 1
    /\ UNCHANGED << now, ks, nextKey, proc, observed, faulty, keysCmd, rec >>

\* delete one key file of the keystore
RemoveKeyFile(r) ==
    /\ EnvWindow(r)
    /\ \E name \in SignerNames, half \in { "priv", "pub" } :
          /\ ks[name][half] # None
          /\ ks' = [ ks EXCEPT ![name][half] = None ]
    /\ envSteps' = envSteps + 1
    /\ UNCHANGED << now, fs, nextKey, proc, observed, faulty, keysCmd, rec >>

\* `epi keys <action> --name <name> [--overwrite]`: main_callback, then the
\* command body (main.py, lines 124-161); keysCmd keeps what the command was
\* given, the keystore its body found, and how it ended
KeysCommand(action, name, overwrite) ==
    LET missing == ~HasKey(ks, "default")
        first == IF missing THEN GenerateKeypair(ks, "default", nextKey) ELSE ks
        k == IF missing THEN nextKey + 1 ELSE nextKey
        result == KeysBody(first, action, name, overwrite, k)
        generated == action = "generate" /\ result[1] = "ok"
    IN  /\ IF generated THEN k <= MaxKeys ELSE k <= MaxKeys + 1
        /\ ks' = result[3]
        /\ nextKey' = IF generated THEN k + 1 ELSE k
        /\ keysCmd' = [ ran |-> TRUE, action |-> action, name |-> name,
                        overwrite |-> overwrite, before |-> first,
                        error |-> result[2], exit_code |-> KeysExitCode(result) ]

KeysGenerate(r) ==
    /\ EnvWindow(r)
    /\ \E name \in SignerNames, overwrite \in BOOLEAN : KeysCommand("generate", name, overwrite)
    /\ envSteps' = envSteps + 1
    /\ UNCHANGED << now, fs, proc, observed, faulty, rec >>

EnvStep(r) ==
    \/ TamperEntry(r) \/ TamperManifest(r) \/ CorruptManifest(r) \/ DeleteArchive(r)
    \/ RemoveKeyFile(r) \/ KeysGenerate(r)

(***************************************************************************)
(* A reader (read_manifest, verify_integrity, the viewer) opens the output  *)
(* path while the re-sign step is under way, or right after it.             *)
(***************************************************************************)
ReaderOpen(r) ==
    /\ proc[r].pc \in { "copy", "manifest", "replace", "verify" }
    /\ envSteps = 0
    /\ observed = NoFile
    /\ observed' = fs[proc[r].out]
    /\ UNCHANGED << now, fs, ks, nextKey, proc, envSteps, faulty, keysCmd, rec >>

\* the clock advances between the launches of the recordings
Tick ==
    /\ now < MaxTime
    /\ \E r \in Runs : proc[r].pc \in { "callback", "start" }
    /\ now' = now + 1
    /\ UNCHANGED << fs, ks, nextKey, proc, observed, envSteps, faulty, keysCmd, rec >>

(***************************************************************************)
(* Spec: one recording that owns its output path, on a disk that can fail,  *)
(* with a reader.  SpecEnv: one recording and the environment.  SpecConc:   *)
(* the recordings of Runs started concurrently.                             *)
(***************************************************************************)
Next == RunStep(1) \/ ReaderOpen(1)

Spec == Init /\ [][Next]_vars

InitEnv ==
    /\ InitCommon
    /\ rec = NoRecorder
    /\ faulty = FALSE
    /\ \E o \in Options :
          proc = [ r \in Runs |->
                     IF r = 1
                     THEN Locals(ScriptPath("a", "demo", ".py", TRUE), FALSE, TRUE, o,
                                 [ rc |-> 0, stdout |-> Bytes(MaxByte) ], "callback")
                     ELSE Idle ]

NextEnv == RunStep(1) \/ EnvStep(1)

SpecEnv == InitEnv /\ [][NextEnv]_vars

InitConc ==
    /\ InitCommon
    /\ rec = NoRecorder
    /\ faulty = FALSE
    /\ \E ss \in [ Runs -> { s \in Scripts : s.exists } ] :
          /\ ss[1].dir = "a"
          /\ proc = [ r \in Runs |-> Locals(ss[r], FALSE, TRUE, NoOptions, Quiet, "callback") ]

NextConc == (\E r \in Runs : RunStep(r)) \/ Tick

SpecConc == InitConc /\ [][NextConc]_vars

\* one recording with any flags and any child, and an environment that
\* damages the archive
InitExit ==
    /\ InitCommon
    /\ rec = NoRecorder
    /\ faulty = FALSE
    /\ \E nv \in BOOLEAN, no \in BOOLEAN, c \in Children :
          proc = [ r \in Runs |->
                     IF r = 1
                     THEN Locals(ScriptPath("a", "demo", ".py", TRUE), nv, no, NoOptions,
                                 c, "callback")
                     ELSE Idle ]

NextExit == RunStep(1) \/ TamperEntry(1) \/ CorruptManifest(1)

SpecExit == InitExit /\ [][NextExit]_vars

\* the keys command on its own: any sequence of `epi keys ...`
InitKeysOnly ==
    /\ InitCommon
    /\ rec = NoRecorder
    /\ faulty = FALSE
    /\ proc = [ r \in Runs |-> Idle ]

Keys ==
    /\ \E action \in KeysActions, name \in KeyNames, overwrite \in BOOLEAN :
          KeysCommand(action, name, overwrite)
    /\ UNCHANGED << now, fs, proc, observed, envSteps, faulty, rec >>

NextKeys == Keys

SpecKeys == InitKeysOnly /\ [][NextKeys]_vars

-----------------------------------------------------------------------------
(***************************************************************************)
(* The steps of a recorder's user and of its flush worker.  Coroutines      *)
(* interleave at their awaits only.                                         *)
(***************************************************************************)
Rest == << now, fs, ks, nextKey, proc, observed, envSteps, faulty, keysCmd >>

\* lines 39-55: start() has no await; a user of the class may also leave it out
Start ==
    /\ rec.pc = "new"
    /\ rec' = IF rec.starts
              THEN LET context == RecordingContext(rec.output_dir, rec.enable_redaction,
                                                   rec.has_storage)
                   IN  [ rec EXCEPT !.pc = "body",
                                    !.context = Some(context),
                                    !.token = Some("token"),
                                    !.current = Some(context),
                                    !.has_queue = TRUE,
                                    !.worker = "running" ]
              ELSE [ rec EXCEPT !.pc = "body" ]
    /\ UNCHANGED Rest

\* the recorded code puts a step on the queue
BodyPut ==
    /\ rec.pc = "body"
    /\ rec.has_queue
    /\ rec.steps_put < MaxSteps
    /\ rec' = [ rec EXCEPT !.queue = Append(@, STEP),
                           !.unfinished = @ + 1,
                           !.steps_put = @ + 1 ]
    /\ UNCHANGED Rest

\* lines 136-139: the body returns or raises, and stop() is called
BodyEnd ==
    /\ rec.pc = "body"
    /\ rec' = [ rec EXCEPT !.pc = "stop", !.stop_calls = @ + 1 ]
    /\ UNCHANGED Rest

\* lines 88-90: put the shutdown signal and go on to join the queue
StopSignal ==
    /\ rec.pc = "stop"
    /\ rec' = IF rec.has_queue
              THEN [ rec EXCEPT !.pc = "join",
                                !.queue = Append(@, SHUTDOWN),
                                !.unfinished = @ + 1 ]
              ELSE [ rec EXCEPT !.pc = "worker" ]
    /\ UNCHANGED Rest

\* line 90: Queue.join() returns when no task is unfinished
JoinReturns(r) == r.unfinished = 0

\* lines 90-100: join returns; the worker task is awaited, and cancelled when
\* it has not ended in time
StopAwaitWorker ==
    /\ rec.pc \in { "join", "worker" }
    /\ rec.pc = "join" => JoinReturns(rec)
    /\ rec' = [ rec EXCEPT !.pc = "finalize",
                           !.worker = IF @ = "running" THEN "cancelled" ELSE @ ]
    /\ UNCHANGED Rest

\* lines 102-106
StopFinalize ==
    /\ rec.pc = "finalize"
    /\ rec' = [ rec EXCEPT !.pc = "clear",
                           !.final_path = Some(FinalPath(rec.context, rec.output_dir)) ]
    /\ UNCHANGED Rest

\* lines 108-112: clear the current context and return the path
StopClear ==
    /\ rec.pc = "clear"
    /\ rec' = [ rec EXCEPT !.pc = "stopped",
                           !.current = IF rec.token # None THEN None ELSE @ ]
    /\ UNCHANGED Rest

\* line 139 onwards: the finally block is done; the body's exception, if any,
\* goes on to the caller
RecordExit ==
    /\ rec.pc = "stopped"
    /\ rec' = [ rec EXCEPT !.pc = "exit",
                           !.outcome = IF rec.body = "raise" THEN "raised" ELSE "returned" ]
    /\ UNCHANGED Rest

\* lines 61-74: the worker takes an item; the shutdown signal ends it, with
\* no task_done; a step is marked done
FlushWorkerGet ==
    /\ rec.worker = "running"
    /\ rec.queue # << >>
    /\ rec' = IF Head(rec.queue) = SHUTDOWN
              THEN [ rec EXCEPT !.queue = Tail(@), !.worker = "done" ]
              ELSE [ rec EXCEPT !.queue = Tail(@), !.unfinished = @ - 1 ]
    /\ UNCHANGED Rest

\* lines 62-65, 76-77: nothing came within the timeout, the loop goes round
FlushWorkerTimeout ==
    /\ rec.worker = "running"
    /\ rec.queue = << >>
    /\ rec.timeouts < MaxTimeouts
    /\ rec' = [ rec EXCEPT !.timeouts = @ + 1 ]
    /\ UNCHANGED Rest

RecorderStep ==
    \/ Start \/ BodyPut \/ BodyEnd \/ StopSignal \/ StopAwaitWorker
    \/ StopFinalize \/ StopClear \/ RecordExit

FlushWorker == FlushWorkerGet \/ FlushWorkerTimeout

\* a recorder used through record_async, or directly
InitAsync ==
    /\ InitCommon
    /\ faulty = FALSE
    /\ proc = [ r \in Runs |-> Idle ]
    /\ \E via \in { "record_async", "direct" }, dir \in { "out", "out2" },
          redact \in BOOLEAN, storage \in BOOLEAN, starts \in BOOLEAN,
          body \in { "return", "raise" } :
          /\ via = "record_async" => starts
          /\ via = "direct" => body = "return"
          /\ rec = Recorder(via, dir, redact, storage, starts, body)

NextAsync == RecorderStep \/ FlushWorker

\* the event loop runs every task that can run
SpecAsync ==
    /\ InitAsync
    /\ [][NextAsync]_vars
    /\ WF_vars(RecorderStep)
    /\ WF_vars(FlushWorker)

-----------------------------------------------------------------------------
(***************************************************************************)
(* The properties.                                                          *)
(***************************************************************************)
Started(r) == proc[r].packed.exists
AfterAutoSign(r) == proc[r].pc \in { "verify", "viewer", "exit", "done" }
AfterVerify(r) == proc[r].pc \in { "viewer", "exit", "done" } /\ ~proc[r].no_verify
Archive(r) == fs[proc[r].out]
OtherEntries(file) == (DOMAIN file.data) \ { MANIFEST }
ManifestOf(file) == ReadManifest(file)[2]

\* C1: once the re-sign step has replaced the manifest, every entry other
\* than the manifest exists iff pack wrote it, holds the bytes pack wrote,
\* and has the digest pack recorded for it in the manifest
C1_ResignPreservesEntries ==
    \A r \in Runs :
        proc[r].signed =>
            /\ OtherEntries(Archive(r)) = OtherEntries(proc[r].packed)
            /\ \A n \in OtherEntries(proc[r].packed) :
                  Archive(r).data[n] = proc[r].packed.data[n]
            /\ ReadManifest(Archive(r))[1] = "ok"
            /\ ManifestOf(Archive(r)).digests = ManifestOf(proc[r].packed).digests

C1_Witness ==
    /\ proc[1].signed
    /\ Archive(1).data[MANIFEST] # proc[1].packed.data[MANIFEST]
    /\ ManifestOf(Archive(1)).signature # None

\* C2: a reader that opens the output path during the re-sign step finds
\* the whole archive as packed or the whole re-signed archive
C2_ReaderSeesOldOrNew ==
    observed.exists =>
        \/ observed = proc[1].packed
        \/ /\ Readable(observed)
           /\ OtherEntries(observed) = OtherEntries(proc[1].packed)
           /\ \A n \in OtherEntries(observed) : observed.data[n] = proc[1].packed.data[n]
           /\ MANIFEST \in DOMAIN observed.data
           /\ observed.data[MANIFEST] = proc[1].signed_json

\* a reader opened the path while the temporary archive was half written
C2_Witness ==
    /\ observed = proc[1].packed
    /\ proc[1].pc = "copy"
    /\ proc[1].item > 2
    /\ ~fs[TempZip(proc[1].out)].sealed

\* C3: when the re-sign step fails, the output path still holds the archive
\* as packed and the temporary file no longer exists
C3_FailedResignDiscardsTemp ==
    \A r \in Runs :
        (Started(r) /\ AfterAutoSign(r) /\ ~proc[r].signed) =>
            /\ Archive(r) = proc[r].packed
            /\ ~fs[TempZip(proc[r].out)].exists

\* C4: two recordings in flight (packing or re-signing) never have the same
\* output path
InFlight(r) ==
    proc[r].pc \in { "pack", "autosign", "read", "open", "copy", "manifest", "replace" }

C4_DistinctOutputPaths ==
    \A r1, r2 \in Runs :
        (r1 # r2 /\ InFlight(r1) /\ InFlight(r2)) => proc[r1].out # proc[r2].out


\* the entries other than the manifest whose bytes are not those pack wrote
Changed(r) ==
    { e \in OtherEntries(proc[r].packed) : Archive(r).data[e] # proc[r].packed.data[e] }

\* the archive holds the entries pack wrote and the digest mapping pack
\* recorded: nothing but the bytes of entries may have changed
OnlyBytesChanged(r) ==
    /\ Started(r)
    /\ ReadManifest(Archive(r))[1] = "ok"
    /\ DOMAIN Archive(r).data = DOMAIN proc[r].packed.data
    /\ ManifestOf(Archive(r)).digests = ManifestOf(proc[r].packed).digests

\* C5: when the bytes of entries other than the manifest were changed after
\* packing and nothing else was, verify_integrity returns ok = false and
\* names exactly the changed entries (exactly e when only e was changed), and
\* _verify_recording returns success = false with the integrity message,
\* whether or not the manifest is signed
C5_TamperedEntryReported ==
    \A r \in Runs :
        (OnlyBytesChanged(r) /\ Changed(r) # {}) =>
            /\ VerifyIntegrity(Archive(r)) = [ ok |-> FALSE, mismatches |-> Changed(r) ]
            /\ AfterVerify(r) =>
                  /\ ~proc[r].verified
                  /\ proc[r].verify_msg =
                        << "Integrity check failed", ToString(Cardinality(Changed(r))) >>

\* one entry of a signed archive was changed, and verification has reported it
C5_Witness ==
    /\ AfterVerify(1)
    /\ proc[1].signed
    /\ OnlyBytesChanged(1)
    /\ Changed(1) = { VIEWER }
    /\ ~proc[1].verified
    /\ proc[1].verify_msg = << "Integrity check failed", "1" >>

\* C6: an archive that pack produced and only the re-sign step has modified
\* passes verify_integrity with an empty mismatch list, the manifest and the
\* viewer being among its entries, and _verify_recording accepts it
C6_UntamperedArchiveVerifies ==
    \A r \in Runs :
        Started(r) =>
            /\ { MANIFEST, VIEWER } \subseteq DOMAIN Archive(r).data
            /\ ReadManifest(Archive(r))[1] = "ok"
            /\ VerifyIntegrity(Archive(r)) = [ ok |-> TRUE, mismatches |-> {} ]
            /\ AfterVerify(r) =>
                  /\ proc[r].verified
                  /\ proc[r].verify_msg[1] \in { "OK (signed & verified)", "OK (unsigned)" }

\* a re-signed archive has been verified
C6_Witness ==
    /\ proc[1].pc = "done"
    /\ proc[1].signed
    /\ ManifestOf(Archive(1)).signature # None
    /\ VIEWER \in DOMAIN Archive(1).data
    /\ proc[1].verified
    /\ proc[1].verify_msg[1] = "OK (signed & verified)"

\* the archive holds the manifest the re-sign step wrote
HoldsSignedManifest(r) ==
    /\ proc[r].signed
    /\ Archive(r).exists
    /\ Archive(r).data[MANIFEST] = proc[r].signed_json

\* C7: the manifest that run signed, wrote into the archive as JSON and read
\* back verifies under the public key of the signing keypair and under no
\* other keypair's public key; _verify_recording accepts it exactly when the
\* stored public key is the signer's
C7_SignVerifyRoundTrip ==
    \A r \in Runs :
        HoldsSignedManifest(r) =>
            /\ ReadManifest(Archive(r))[1] = "ok"
            /\ ManifestOf(Archive(r)).signature # None
            /\ \A k \in KeyIds :
                  VerifySignature(ManifestOf(Archive(r)), PublicKey(k)).valid
                     <=> (PrivateKey(k) = proc[r].priv[1])
            /\ (AfterVerify(r) /\ VerifyIntegrity(Archive(r)).ok /\ ks["default"].pub # None) =>
                  /\ proc[r].verified <=>
                        \E k \in KeyIds : /\ PrivateKey(k) = proc[r].priv[1]
                                          /\ ks["default"].pub[1] = PublicKey(k)
                  /\ proc[r].verify_msg[1] =
                        IF proc[r].verified THEN "OK (signed & verified)"
                        ELSE "Signature invalid"

\* the signed manifest, untouched, was verified under another keypair's
\* public key
C7_Witness ==
    /\ AfterVerify(1)
    /\ HoldsSignedManifest(1)
    /\ ks["default"].pub # None
    /\ ks["default"].pub[1] # PublicKey(proc[1].priv[1][2])
    /\ proc[1].verify_msg = << "Signature invalid", "Signature rejected" >>

\* the manifest in the archive differs from the one that was signed in a
\* field other than the signature block, which is the one that was written
AlteredAfterSigning(r) ==
    /\ proc[r].signed
    /\ ReadManifest(Archive(r))[1] = "ok"
    /\ ManifestOf(Archive(r)).signature = ManifestFromJson(proc[r].signed_json).signature
    /\ \E f \in ManifestFields \ { "signature" } :
          ManifestOf(Archive(r))[f] # ManifestFromJson(proc[r].signed_json)[f]

\* C8: a signed manifest with a field other than the signature block
\* changed and not signed again does not verify under the signer's public
\* key, and _verify_recording reports the signature as invalid
C8_AlteredManifestRejected ==
    \A r \in Runs :
        AlteredAfterSigning(r) =>
            /\ \A k \in KeyIds :
                  PrivateKey(k) = proc[r].priv[1] =>
                     ~VerifySignature(ManifestOf(Archive(r)), PublicKey(k)).valid
            /\ (AfterVerify(r) /\ VerifyIntegrity(Archive(r)).ok /\ ks["default"].pub # None) =>
                  /\ ~proc[r].verified
                  /\ proc[r].verify_msg = << "Signature invalid", "Signature rejected" >>

\* the goal of a signed manifest was edited and verification ran with the
\* signer's public key
C8_Witness ==
    /\ AfterVerify(1)
    /\ AlteredAfterSigning(1)
    /\ ManifestOf(Archive(1)).goal # ManifestFromJson(proc[1].signed_json).goal
    /\ ks["default"].pub = Some(PublicKey(proc[1].priv[1][2]))
    /\ proc[1].verify_msg[1] = "Signature invalid"

\* the state of the archive and the keystore that verification meets
VerificationCase(r) ==
    IF ReadManifest(Archive(r))[1] # "ok" THEN "fault"
    ELSE IF Mismatches(Archive(r)) # {} THEN "integrity mismatch"
    ELSE IF ManifestOf(Archive(r)).signature = None THEN "unsigned"
    ELSE IF ks["default"].pub = None THEN "key not available"
    ELSE IF VerifySignature(ManifestOf(Archive(r)), ks["default"].pub[1]).valid
    THEN "signed and valid"
    ELSE "signature rejected"

\* what _verify_recording returns in each case: no two cases share a result
ReportedAs ==
    [ c \in { "fault", "integrity mismatch", "unsigned", "key not available",
              "signed and valid", "signature rejected" } |->
        CASE c = "fault" -> << FALSE, "Verification failed" >>
          [] c = "integrity mismatch" -> << FALSE, "Integrity check failed" >>
          [] c = "unsigned" -> << TRUE, "OK (unsigned)" >>
          [] c = "key not available" -> << TRUE, "OK (unsigned - no public key)" >>
          [] c = "signed and valid" -> << TRUE, "OK (signed & verified)" >>
          [] c = "signature rejected" -> << FALSE, "Signature invalid" >> ]

\* C9: what _verify_recording returns tells the cases apart: integrity
\* mismatch, unsigned, signed by a key that is not available, signed and
\* valid, signature rejected each have a result of their own
C9_OutcomesDistinct ==
    /\ \A c, d \in DOMAIN ReportedAs : c # d => ReportedAs[c] # ReportedAs[d]
    /\ \A r \in Runs :
          AfterVerify(r) =>
              << proc[r].verified, proc[r].verify_msg[1] >> = ReportedAs[VerificationCase(r)]

\* a signed archive was verified without the signer's public key
C9_Witness ==
    /\ AfterVerify(1)
    /\ proc[1].signed
    /\ VerificationCase(1) = "key not available"
    /\ proc[1].verified
    /\ proc[1].verify_msg[1] = "OK (unsigned - no public key)"

\* C10: _verify_recording never raises, and when it returns success = false
\* its message names what failed (integrity, signature or the fault) and
\* carries the detail
C10_VerifyNeverRaises ==
    \A r \in Runs :
        /\ proc[r].pc # "raised"
        /\ (AfterVerify(r) /\ ~proc[r].verified) =>
              /\ proc[r].verify_msg[1] \in
                    { "Integrity check failed", "Signature invalid", "Verification failed" }
              /\ proc[r].verify_msg[2] # ""

\* an archive whose manifest does not decode was verified
C10_Witness ==
    /\ AfterVerify(1)
    /\ Archive(1).exists
    /\ Archive(1).data[MANIFEST] = Garbage
    /\ proc[1].verify_msg = << "Verification failed", "CorruptArchive" >>


\* the generate command found the name in the keystore
FoundExisting ==
    keysCmd.ran /\ keysCmd.action = "generate" /\ HasKey(keysCmd.before, keysCmd.name)

\* C11: a name holds no keypair or the two halves of one keypair; generate
\* on an existing name without overwrite ends with AlreadyExists and exit
\* code 1 and leaves the keystore as it was; with overwrite it ends with exit
\* code 0 and the private key then stored under the name is the new one
C11_GenerateOverExistingName ==
    /\ \A n \in KeyNames :
          ks[n] = NoKeys[n] \/ \E k \in KeyIds : ks[n] = KeyPair(k)
    /\ (FoundExisting /\ ~keysCmd.overwrite) =>
          /\ keysCmd.error = "AlreadyExists"
          /\ keysCmd.exit_code = 1
          /\ ks = keysCmd.before
    /\ (FoundExisting /\ keysCmd.overwrite) =>
          /\ keysCmd.exit_code = 0
          /\ ks[keysCmd.name] = KeyPair(nextKey - 1)
          /\ ks[keysCmd.name].priv # keysCmd.before[keysCmd.name].priv
          /\ \A n \in KeyNames \ { keysCmd.name } : ks[n] = keysCmd.before[n]

\* a keypair was overwritten, and then generate without overwrite was refused
C11_Witness ==
    /\ FoundExisting
    /\ ~keysCmd.overwrite
    /\ keysCmd.exit_code = 1
    /\ \E n \in KeyNames : \E k \in KeyIds \ { 1 } : ks[n] = KeyPair(k)


\* C12: once pack has started, the recorded child has exited, proc.wait()
\* has returned, the log files are closed, and the source directory holds
\* what pack read: nothing is written to it afterwards
C12_PackAfterChildExit ==
    \A r \in Runs :
        Started(r) =>
            /\ proc[r].child_state = "exited"
            /\ ~proc[r].logs_open
            /\ proc[r].rc = proc[r].child.rc
            /\ proc[r].workspace = proc[r].source
            /\ DOMAIN proc[r].source = SeqToSet(WorkspaceFiles)

\* a child that printed something and failed was packed, and run has ended
C12_Witness ==
    /\ proc[1].pc = "done"
    /\ Started(1)
    /\ proc[1].rc # 0
    /\ proc[1].source["stdout.log"] # Bytes(0)
    /\ proc[1].packed.data["stdout.log"] = proc[1].child.stdout


\* stop() has been called on a recorder that was started
StopCalledAfterStart == rec.starts /\ rec.stop_calls > 0

\* stop() has returned a path
StopReturned == rec.pc \in { "stopped", "exit" } /\ rec.final_path # None

\* C13: after start(), a call to stop() leads to its return with the path
\* of the finalized recording, the shutdown signal taken off the queue and
\* the worker task ended
C13_StopTerminates ==
    StopCalledAfterStart ~>
        (StopReturned /\ rec.queue = << >> /\ rec.worker \in { "done", "cancelled" })


\* C14: after the re-sign step the manifest in the archive has the fields
\* pack wrote, all but the signature block, which is now present; and from
\* then on the archive stays as the re-sign step left it
C14_OnlySignatureAttached ==
    \A r \in Runs :
        proc[r].signed =>
            /\ ReadManifest(Archive(r))[1] = "ok"
            /\ \A f \in ManifestFields \ { "signature" } :
                  ManifestOf(Archive(r))[f] = ManifestOf(proc[r].packed)[f]
            /\ ManifestOf(proc[r].packed).signature = None
            /\ ManifestOf(Archive(r)).signature # None
            /\ Archive(r).data = [ proc[r].packed.data EXCEPT ![MANIFEST] = proc[r].signed_json ]
            /\ Archive(r).sealed

\* a recording with every metadata option was signed, verified and shown
C14_Witness ==
    /\ proc[1].pc = "done"
    /\ proc[1].signed
    /\ proc[1].viewer_opened
    /\ ManifestOf(Archive(1)).goal # None
    /\ ManifestOf(Archive(1)).metrics # None
    /\ ManifestOf(Archive(1)).tags # None
    /\ ManifestOf(Archive(1)).signature # None


\* the auto-sign step of a recording has failed
SignFailed(r) == Started(r) /\ AfterAutoSign(r) /\ ~proc[r].signed

\* C15: when the auto-sign step fails, run goes on: the output path holds
\* the archive as packed, unsigned; verification, unless skipped, reports
\* OK (unsigned); and run ends with the exit code of a run without the
\* failure, the child's return code
C15_SignFailureNotFatal ==
    \A r \in Runs :
        /\ (Started(r) /\ proc[r].pc = "done") =>
              /\ proc[r].no_verify \/ proc[r].verify_msg # NoMessage
              /\ proc[r].exit_code # None
        /\ SignFailed(r) =>
              /\ Archive(r) = proc[r].packed
              /\ ManifestOf(Archive(r)).signature = None
              /\ AfterVerify(r) =>
                    /\ proc[r].verified
                    /\ proc[r].verify_msg = << "OK (unsigned)", "" >>
              /\ proc[r].pc = "done" => proc[r].exit_code = Some(proc[r].rc)

\* the rewrite failed half way, and run ended with the child's code 0
C15_Witness ==
    /\ proc[1].pc = "done"
    /\ SignFailed(1)
    /\ fs[TempZip(proc[1].out)].exists
    /\ proc[1].verify_msg = << "OK (unsigned)", "" >>
    /\ proc[1].exit_code = Some(0)


C17_ViewerOnlyWhenVerified ==
    \A r \in Runs :
        /\ proc[r].viewer_opened =>
              /\ ~proc[r].no_open
              /\ proc[r].rc = 0
              /\ ~proc[r].no_verify
              /\ proc[r].verified
              /\ proc[r].verify_msg[1] \in { "OK (signed & verified)", "OK (unsigned)",
                                             "OK (unsigned - no public key)" }
        /\ proc[r].no_verify => ~proc[r].verified

\* a recording whose child returned 0 failed verification; run has ended,
\* --no-open was not given, and the viewer was not opened
C17_Witness ==
    /\ proc[1].pc = "done"
    /\ Started(1)
    /\ ~proc[1].no_open
    /\ proc[1].rc = 0
    /\ ~proc[1].no_verify
    /\ ~proc[1].verified
    /\ proc[1].verify_msg[1] = "Integrity check failed"
    /\ ~proc[1].viewer_opened

\* run has ended after recording the child
Ended(r) == Started(r) /\ proc[r].pc = "done" /\ proc[r].exit_code # None

\* C18: run ends with the child's return code when that is not 0, whatever
\* verification said; otherwise with 1 when verification ran and did not
\* succeed; otherwise with 0, which is always so with --no-verify and a
\* child that returned 0
C18_ExitCode ==
    \A r \in Runs :
        Ended(r) =>
            /\ proc[r].rc = proc[r].child.rc
            /\ proc[r].rc # 0 => proc[r].exit_code = Some(proc[r].rc)
            /\ (proc[r].rc = 0 /\ ~proc[r].no_verify /\ ~proc[r].verified) =>
                  proc[r].exit_code = Some(1)
            /\ (proc[r].rc = 0 /\ ~proc[r].no_verify /\ proc[r].verified) =>
                  proc[r].exit_code = Some(0)
            /\ (proc[r].rc = 0 /\ proc[r].no_verify) => proc[r].exit_code = Some(0)

\* the child returned 2 and verification failed: run ended with 2
C18_Witness ==
    /\ Ended(1)
    /\ proc[1].rc = 2
    /\ ~proc[1].no_verify
    /\ ~proc[1].verified
    /\ proc[1].exit_code = Some(2)

\* the body of record_async has been left
BodyLeft == rec.via = "record_async" /\ rec.pc \notin { "new", "body" }

\* stop() has run to its end
StopCompleted == rec.pc \in { "stopped", "exit" }

\* C19: once the body of record_async is left, by return or by exception,
\* stop() has been called exactly once; when stop() has completed the current
\* recording context is None; the caller gets the body's exception only after
\* stop() has completed, and a body that raised leads to the caller getting
\* that exception
C19_StopOnExitThenPropagate ==
    /\ [](BodyLeft => rec.stop_calls = 1)
    /\ []((rec.via = "record_async" /\ StopCompleted) => rec.current = None)
    /\ []((rec.via = "record_async" /\ rec.outcome # "pending") => StopCompleted)
    /\ (BodyLeft /\ rec.body = "raise") ~> (rec.outcome = "raised")

=============================================================================
